---- MODULE Spec2Model ----
(***************************************************************************)
(* Breathelytics backend: the audio preprocessing pipeline (pipeline.py),  *)
(* the prediction contract (pipeline.py, app.py) and the insight service   *)
(* (llm_service.py), as state machines.                                    *)
(*                                                                         *)
(* Conventions.  A Python dict is an ordered sequence of [key, val]        *)
(* records with pairwise distinct keys (insertion order is observable in   *)
(* the column order of the feature table).  A numpy array of samples is a  *)
(* sequence of integers.  A real number that the code only passes around   *)
(* is a pair <<numerator, denominator>>.  Values computed by librosa,      *)
(* numpy statistics and the classifier are uninterpreted terms or are      *)
(* drawn from small sets.                                                  *)
(***************************************************************************)
EXTENDS Integers, Sequences, FiniteSets, TLC

VARIABLES
    \* ---- one direct call of AudioTrimmer.transform (SpecTrim)
    trim_pc,          \* "call" before the call, "done" after it
    target_duration,  \* AudioTrimmer.target_duration, <<num, den>>
    trim_X,           \* the argument X
    trimmed           \* the returned dict

trimVars == <<trim_pc, target_duration, trim_X, trimmed>>

VARIABLES
    \* ---- one run of Pipeline.transform on a batch of paths (SpecPipe)
    disk,             \* path -> decoded content of the audio file, or a defect
    pipeline,         \* the steps built by create_respiratory_pipeline
    pipe_pc,          \* name of the next step, "done" or "error"
    pipe_val,         \* the value handed from step to step
    pipe_err,         \* the exception that ended the run, or None
    pipe_trace,       \* names of the steps completed so far
    pipe_fail,        \* the librosa call that raised in this run, if any
    pipe_X            \* the argument X of Pipeline.transform

pipeVars == <<disk, pipeline, pipe_pc, pipe_val, pipe_err, pipe_trace,
              pipe_fail, pipe_X>>

VARIABLES
    \* ---- one call of predict_respiratory_condition (SpecPredict)
    model_file,       \* what model_path holds
    wav_file_path,    \* the argument wav_file_path
    pred_pc,          \* position in predict_respiratory_condition
    model,            \* the local variable model
    model_out,        \* what model.predict and model.predict_proba returned
    pred_result,      \* the returned dict
    pred_err,         \* the raised exception
    http_response     \* the response of the /api/predict handler to the call

predVars == <<model_file, wav_file_path, pred_pc, model, model_out,
              pred_result, pred_err, http_response>>

VARIABLES
    \* ---- the Flask server process and its request threads (SpecServer)
    entry,                   \* the script that started the server
    model_exists,            \* respiratory_classifier.pkl is in MODEL_DIR
    temp_dir,                \* names of the files in TEMP_DIR
    uuids,                   \* number of uuid4() values drawn so far
    preprocessing_pipeline,  \* app._preprocessing_pipeline is not None
    pipeline_inits,          \* times get_preprocessing_pipeline created one
    model_loads,             \* times joblib.load read the classifier
    req                      \* request thread -> its local state

serverVars == <<entry, model_exists, temp_dir, uuids, preprocessing_pipeline,
                pipeline_inits, model_loads, req>>

VARIABLES
    \* ---- one call of GeminiLLMService.generate_insights (SpecLLM)
    prediction_result,  \* the argument, a dict
    llm_pc,             \* position in generate_insights
    attempt,            \* loop variable of _call_gemini_api
    net_log,            \* outcome of every network attempt made, in order
    gemini_response,    \* the envelope returned by _call_gemini_api
    llm_exc,            \* the exception caught by generate_insights
    insights,           \* the returned dict
    \* ---- the caller, generate_medical_insights
    api_key,            \* os.environ.get('GEMINI_API_KEY'), "" when unset
    llm_service,        \* the global _llm_service is not None
    medical,            \* what generate_medical_insights has returned
    previous            \* the insights returned by the call before this one

llmVars == <<prediction_result, llm_pc, attempt, net_log, gemini_response,
             llm_exc, insights, api_key, llm_service, medical, previous>>

VARIABLES
    \* ---- one call of validate_model_compatibility (SpecCompat)
    compat_model,       \* what model_path holds
    compat_pc,          \* "call" before the call, "returned" or "raised" after
    model_info,         \* the returned dict
    compat_err          \* the raised exception

compatVars == <<compat_model, compat_pc, model_info, compat_err>>

vars == <<trimVars, pipeVars, predVars, serverVars, llmVars, compatVars>>

\* ------------------------------------------------------------------ bounds
MaxLen   == 6   \* longest input clip, in samples
MaxRate  == 3   \* largest sample rate
MaxTNum  == 3   \* largest numerator of a target duration
MaxBatch == 2   \* most paths in one batch
MaxClasses == 9 \* most classes of a loaded classifier
MaxCode  == 9   \* class indices returned by a classifier lie in -MaxCode..MaxCode
MaxReq   == 2   \* request threads of one server process

Samples  == {0, 1}            \* sample values
TDens    == {1, 2}            \* denominators of target durations

\* ------------------------------------------------------- Python primitives
Min(a, b) == IF a <= b THEN a ELSE b
Max(a, b) == IF a >= b THEN a ELSE b

\* int(x) of the real x = num/den (den > 0): truncation toward zero.
PyInt(num, den) ==
    IF num >= 0 THEN num \div den ELSE -((-num) \div den)

\* Faulty variants of the two operations below: the last n elements are
\* kept; the zeros are put in front.
PySliceLast(s, n) == SubSeq(s, Len(s) - (IF n >= 0 THEN Min(n, Len(s)) ELSE 0) + 1, Len(s))
NpPadLeft(s, k) == [i \in 1..k |-> 0] \o s

\* s[:n] of Python for any integer n.
PySliceTo(s, n) ==
    LET stop == IF n >= 0 THEN Min(n, Len(s)) ELSE Max(Len(s) + n, 0)
    IN  SubSeq(s, 1, stop)

\* np.pad(s, (0, k), 'constant'), k >= 0: k zeros appended.
NpPadRight(s, k) == s \o [i \in 1..k |-> 0]

\* All sequences over S of length at most n.
SeqsUpTo(S, n) == UNION {[1..k -> S] : k \in 0..n}

\* ---- ordered dict
EmptyDict == <<>>
DictKeys(d) == {d[i].key : i \in 1..Len(d)}
DictIndex(d, k) == CHOOSE i \in 1..Len(d) : d[i].key = k
DictGet(d, k) == d[DictIndex(d, k)].val
\* d[k] = v: an existing key keeps its position, a new key is appended.
DictSet(d, k, v) ==
    IF k \in DictKeys(d)
    THEN [i \in 1..Len(d) |-> IF d[i].key = k THEN [key |-> k, val |-> v] ELSE d[i]]
    ELSE Append(d, [key |-> k, val |-> v])

\* The dict made by assigning the pairs in order: a key stands where it was
\* first assigned and holds the value assigned last.
DictFromPairs(ps) ==
    LET first == SelectSeq([i \in 1..Len(ps) |-> i],
                           LAMBDA i : \A j \in 1..(i - 1) : ps[j].key # ps[i].key)
        last(k) == CHOOSE i \in 1..Len(ps) :
                      /\ ps[i].key = k
                      /\ \A j \in (i + 1)..Len(ps) : ps[j].key # k
    IN  [n \in 1..Len(first) |->
            [key |-> ps[first[n]].key, val |-> ps[last(ps[first[n]].key)].val]]

\* ------------------------------------------------------------ AudioTrimmer
\* target_samples = int(self.target_duration * sample_rate)
TargetSamples(T, sample_rate) == PyInt(T[1] * sample_rate, T[2])

TrimDataTruncateOnly(data, target_samples) == PySliceTo(data, target_samples)

\* The body of the loop of AudioTrimmer.transform: pad or trim one clip.
TrimData(data, target_samples) ==
    IF Len(data) < target_samples
    THEN NpPadRight(data, target_samples - Len(data))
    ELSE PySliceTo(data, target_samples)

TrimOne(T, audio_info) ==
    [data              |-> TrimData(audio_info.data,
                                    TargetSamples(T, audio_info.sample_rate)),
     sample_rate       |-> audio_info.sample_rate,
     duration          |-> T,
     original_duration |-> IF "duration" \in DOMAIN audio_info
                           THEN audio_info.duration ELSE <<0, 1>>]

RECURSIVE TrimLoop(_, _, _)
TrimLoop(T, X, acc) ==
    IF X = <<>> THEN acc
    ELSE TrimLoop(T, Tail(X), DictSet(acc, Head(X).key, TrimOne(T, Head(X).val)))

AudioTrimmer_transform(T, X) == TrimLoop(T, X, EmptyDict)

\* ------------------------------------------------------------- AudioLoader
\* A path is <<directory, base name>>; os.path.basename takes the base name.
Basename(file_path) == file_path[2]

Paths == {<<"a", "x.wav">>, <<"b", "x.wav">>, <<"a", "y.wav">>}

\* What a path can hold: no file, a file librosa cannot decode, or a decoded
\* clip (librosa.load returns the samples and the file's native rate, > 0).
DiskClips ==
    {[kind |-> "clip", data |-> <<>>, sample_rate |-> 1],
     [kind |-> "clip", data |-> <<1>>, sample_rate |-> 2],
     [kind |-> "clip", data |-> <<1, 0, 1>>, sample_rate |-> 1]}
FileStates == {[kind |-> "missing"], [kind |-> "undecodable"]} \cup DiskClips

\* What a call produces: a returned value or a raised exception.
Return(v) == [ok |-> TRUE, val |-> v]
Raise(type, message) ==
    [ok |-> FALSE, val |-> [type |-> type, message |-> message]]

\* AudioLoader.transform: the loop over the paths, left at the first raise.
RECURSIVE LoadLoop(_, _, _)
LoadLoop(dsk, X, result) ==
    IF X = <<>> THEN Return(result)
    ELSE LET file_path == Head(X)
             filename  == Basename(file_path)
             content   == dsk[file_path]
         IN  IF content.kind = "missing"
             THEN Raise("FileNotFoundError", <<"Audio file not found", file_path>>)
             ELSE IF content.kind = "undecodable"
             THEN Raise("ValueError", <<"Cannot load audio file", file_path>>)
             ELSE LoadLoop(dsk, Tail(X),
                    DictSet(result, filename,
                        [data          |-> content.data,
                         sample_rate   |-> content.sample_rate,
                         original_path |-> file_path,
                         duration      |-> <<Len(content.data), content.sample_rate>>]))

AudioLoader_transform(dsk, X) == LoadLoop(dsk, X, EmptyDict)

\* --------------------------------------------------------- FeatureExtractor
\* The feature families in the order FeatureExtractor.transform stores them.
Families ==
    <<"chroma_stft", "mfcc", "mel_spectrogram", "spectral_contrast",
      "spectral_centroid", "spectral_bandwidth", "spectral_rolloff",
      "zero_crossing_rate">>

\* librosa.feature.<family>(y, sr): an uninterpreted matrix.
LibrosaFeature(family, audio_info) ==
    [family |-> family, y |-> audio_info.data, sr |-> audio_info.sample_rate]

\* file_features of one clip: family -> matrix, in extraction order.
FileFeatures(audio_info) ==
    DictFromPairs(
        [k \in 1..Len(Families) |->
            [key |-> Families[k],
             val |-> LibrosaFeature(Families[k], audio_info)]])

NoFailure == <<0, "none", "">>
\* Texts of exceptions raised by librosa.feature functions.
LibrosaErrors ==
    {"Audio buffer is not finite everywhere", "Input signal length is too small"}

RECURSIVE ExtractLoop(_, _, _)
\* fail = <<i, family, text>>: librosa raises an exception with that text in
\* that family for the i-th clip of the dict; fail = NoFailure: every
\* extraction succeeds.
ExtractLoop(X, fail, features) ==
    IF X = <<>> THEN Return(features)
    ELSE IF fail[1] = Len(features) + 1
    THEN Raise("ValueError",
               <<"Feature extraction failed for ", Head(X).key, ": ", fail[3]>>)
    ELSE ExtractLoop(Tail(X), fail,
                     DictSet(features, Head(X).key, FileFeatures(Head(X).val)))

FeatureExtractor_transform(X, fail) == ExtractLoop(X, fail, EmptyDict)

\* ----------------------------------------------- FeatureStatisticsCalculator
StatsReordered == <<"mean", "std", "min", "max">>

\* The statistics in the order the loop body assigns them.
Stats == <<"mean", "std", "max", "min">>

\* A table cell: its dtype and an uninterpreted value.
ObjectCell(v)  == [dtype |-> "object", v |-> <<"str", v>>]
FloatCell(s, m) == [dtype |-> "float", v |-> <<s, m>>]

\* file_stats of one clip: 'filename', then for each family in the order of
\* the features dict, file_stats[f'{feature_name}_{stat}'] = np.<stat>(...)
\* for the four statistics in the order of Stats.
FileStats(filename, features) ==
    LET ns == Len(Stats)
    IN  DictFromPairs(
            <<[key |-> "filename", val |-> ObjectCell(filename)]>> \o
            [j \in 1..(ns * Len(features)) |->
                LET feature == features[((j - 1) \div ns) + 1]
                    stat    == Stats[((j - 1) % ns) + 1]
                IN  [key |-> feature.key \o "_" \o stat,
                     val |-> FloatCell(stat, feature.val)]])

\* pd.DataFrame(list of dicts): the columns are the keys in order of first
\* appearance, one row per dict.
RECURSIVE ColumnsOf(_, _)
ColumnsOf(rows, cols) ==
    IF rows = <<>> THEN cols
    ELSE LET r   == Head(rows)
             new == SelectSeq([i \in 1..Len(r) |-> r[i].key],
                              LAMBDA c : \A j \in 1..Len(cols) : cols[j] # c)
         IN  ColumnsOf(Tail(rows), cols \o new)

DataFrame(rows) == [columns |-> ColumnsOf(rows, <<>>), rows |-> rows]

InSeq(x, s) == \E i \in 1..Len(s) : s[i] = x

\* df.drop(feature, axis=1)
DropColumn(df, c) ==
    [columns |-> SelectSeq(df.columns, LAMBDA x : x # c),
     rows    |-> [i \in 1..Len(df.rows) |->
                    SelectSeq(df.rows[i], LAMBDA e : e.key # c)]]

RECURSIVE DropExcluded(_, _)
DropExcluded(df, excluded) ==
    IF excluded = <<>> THEN df
    ELSE DropExcluded(
            IF InSeq(Head(excluded), df.columns)
            THEN DropColumn(df, Head(excluded)) ELSE df,
            Tail(excluded))

\* dtype of a column: object as soon as one of its cells is a Python object.
ColumnDtype(df, c) ==
    IF \E i \in 1..Len(df.rows) :
          c \in DictKeys(df.rows[i]) /\ DictGet(df.rows[i], c).dtype = "object"
    THEN "object" ELSE "float"

\* df.select_dtypes(exclude=['object'])
SelectNumeric(df) ==
    LET objs == {c \in {df.columns[i] : i \in 1..Len(df.columns)} :
                    ColumnDtype(df, c) = "object"}
    IN  [columns |-> SelectSeq(df.columns, LAMBDA x : x \notin objs),
         rows    |-> [i \in 1..Len(df.rows) |->
                        SelectSeq(df.rows[i], LAMBDA e : e.key \notin objs)]]

FeatureStatisticsCalculator_transform(excluded_features, X) ==
    LET feature_stats ==
            [n \in 1..Len(X) |-> FileStats(X[n].key, X[n].val)]
    IN  SelectNumeric(DropExcluded(DataFrame(feature_stats), excluded_features))

\* ------------------------------------------------ create_respiratory_pipeline
\* target_duration = 7.8560090702947845 = 173225 / 22050
DefaultTargetDuration == <<6929, 882>>
DefaultExcluded == <<"mel_spectrogram_min", "chroma_stft_max">>

StepNames ==
    <<"load_audio", "trim_audio", "extract_features", "calculate_statistics">>

\* An optional argument: left out, or given with a value.
NoArg == [given |-> FALSE]
Arg(v) == [given |-> TRUE, val |-> v]

create_respiratory_pipeline(T, excluded_features) ==
    [steps             |-> StepNames,
     target_duration   |-> IF T.given THEN T.val ELSE DefaultTargetDuration,
     excluded_features |-> IF excluded_features.given
                           THEN excluded_features.val ELSE DefaultExcluded]

DefaultPipeline == create_respiratory_pipeline(NoArg, NoArg)

\* ------------------------------------------- predict_respiratory_condition
DiagnosisLabelsSorted ==
    <<"Asthma", "Bronchiectasis", "Bronchiolitis", "COPD",
      "Healthy", "LRTI", "URTI", "Pneumonia">>

DiagnosisLabels ==
    <<"Asthma", "Bronchiectasis", "Bronchiolitis", "COPD",
      "Healthy", "LRTI", "Pneumonia", "URTI">>

\* list[i] of Python for any integer i: counted from the end when i < 0,
\* IndexError outside -len..len-1.
PyIndexOk(list, i) == -Len(list) <= i /\ i < Len(list)
PyIndex(list, i) == IF i >= 0 THEN list[i + 1] ELSE list[Len(list) + i + 1]

SeqMax(s) == CHOOSE m \in {s[i] : i \in 1..Len(s)} :
                \A i \in 1..Len(s) : s[i] <= m

\* The part of predict_respiratory_condition after the classifier's calls:
\* the range check, the label, the probability dict and the result.
AssembleResult(prediction_code, probabilities, features_df) ==
    IF prediction_code >= Len(DiagnosisLabels)
    THEN Raise("ValueError",
               <<"Prediction failed", "Invalid prediction code", prediction_code>>)
    ELSE IF ~PyIndexOk(DiagnosisLabels, prediction_code)
    THEN Raise("ValueError", <<"Prediction failed", "IndexError">>)
    ELSE IF Len(probabilities) > Len(DiagnosisLabels)
    THEN Raise("ValueError", <<"Prediction failed", "IndexError">>)
    ELSE IF Len(probabilities) = 0
    THEN Raise("ValueError", <<"Prediction failed", "max of empty array">>)
    ELSE Return(
        [prediction        |-> PyIndex(DiagnosisLabels, prediction_code),
         prediction_code   |-> prediction_code,
         probability       |-> SeqMax(probabilities),
         all_probabilities |->
             DictFromPairs([i \in 1..Len(probabilities) |->
                 [key |-> DiagnosisLabels[i], val |-> probabilities[i]]]),
         feature_count     |-> Len(features_df.columns)])

\* The probability vectors of a classifier with n classes, in thousandths:
\* class i gets i, except one class that gets the rest of 1000.
ProbVectors(n) ==
    {[i \in 1..n |-> IF i = hot THEN 1000 - ((n * (n + 1)) \div 2 - hot) ELSE i] :
        hot \in 1..n}

\* What model_path can hold: nothing, a file joblib cannot load, or a
\* classifier with n classes.
ModelFiles ==
    {[kind |-> "missing"], [kind |-> "unloadable"]} \cup
    {[kind |-> "classifier", n_classes |-> n] : n \in 1..MaxClasses}

\* --------------------------------------------- validate_model_compatibility
\* model_info of a loaded object, which is described by its type name, the
\* attributes it has and len(model.classes_) when it has classes_.
ModelInfo(loaded) ==
    LET info == [model_type        |-> loaded.model_type,
                 has_predict       |-> loaded.has_predict,
                 has_predict_proba |-> loaded.has_predict_proba,
                 has_classes       |-> loaded.has_classes,
                 classes_count     |-> IF loaded.has_classes THEN loaded.n_classes ELSE 0,
                 is_compatible     |-> /\ loaded.has_predict
                                       /\ loaded.has_predict_proba
                                       /\ loaded.has_classes]
    IN  IF loaded.has_classes
        THEN info @@ [c \in {"classes"} |-> [i \in 1..loaded.n_classes |-> i - 1]]
        ELSE info

validate_model_compatibility(file) ==
    IF file.kind = "missing"
    THEN Raise("FileNotFoundError", <<"Model file not found">>)
    ELSE IF file.kind = "unloadable"
    THEN Raise("ValueError", <<"Model validation failed", "joblib.load">>)
    ELSE Return(ModelInfo(file))

\* ----------------------------------------------------- utils.py, config.py
\* Config.MAX_FILE_SIZE = 50 * 1024 * 1024
MAX_FILE_SIZE == 52428800

\* str.lower() on the suffixes that occur.
Lower(suffix) == IF suffix = ".WAV" THEN ".wav" ELSE suffix

AllowedExtensions == {".wav", ".mp3", ".flac", ".m4a"}
AllowedMimes ==
    {"audio/wav", "audio/wave", "audio/x-wav", "audio/mpeg", "audio/mp3",
     "audio/flac", "audio/x-flac", "audio/mp4", "audio/m4a"}

\* A faulty variant of the function below: the extension is not looked at.
ValidateIgnoresExtension(file) ==
    IF ~file.has_audio THEN FALSE
    ELSE IF file.filename.stem = "" /\ file.filename.suffix = "" THEN FALSE
    ELSE IF file.content_type # "" /\ file.content_type \notin AllowedMimes
    THEN FALSE
    ELSE TRUE

\* A file name is [stem, suffix]; the empty name has both empty; has_audio
\* is false for no file at all (None).
\* validate_audio_file(file)
validate_audio_file(file) ==
    IF ~file.has_audio THEN FALSE
    ELSE IF file.filename.stem = "" /\ file.filename.suffix = "" THEN FALSE
    ELSE IF Lower(file.filename.suffix) \notin AllowedExtensions THEN FALSE
    ELSE IF file.content_type # "" /\ file.content_type \notin AllowedMimes
    THEN FALSE
    ELSE TRUE

\* ------------------------------------------------------------------ app.py
\* The temporary file of a request: <<>> while temp_file_path is None,
\* <<name>> once it is set; a name is [uuid, ext].
NoPath == <<>>

\* A faulty variant of the clauses below: FileNotFoundError has no clause
\* of its own.
ExceptStatusNoModelClause(type) == IF type = "BadRequest" THEN 400 ELSE 500
\* The except clauses of predict_respiratory_disease, by exception type.
ExceptStatus(type) ==
    IF type = "BadRequest" THEN 400
    ELSE IF type = "FileNotFoundError" THEN 503
    ELSE 500
\* The "error" member of the JSON body sent with a status.
ErrorBody(status) ==
    IF status = 400 THEN "Invalid request"
    ELSE IF status = 503 THEN "Model not available"
    ELSE IF status = 500 THEN "Prediction failed"
    ELSE ""
NoResponse == [status |-> 0, error |-> ""]
Response(status) == [status |-> status, error |-> ErrorBody(status)]

KeepFiles(files, temp_file_path) == files

\* The finally clause of predict_respiratory_disease: the files of TEMP_DIR
\* after it has run.
CleanupTempFile(files, temp_file_path) ==
    IF temp_file_path # NoPath /\ temp_file_path[1] \in files
    THEN files \ {temp_file_path[1]}
    ELSE files

\* ------------------------------------------------------------ llm_service.py
\* GeminiLLMService.__init__: self.max_retries = 3
max_retries == 3

\* Probabilities are in thousandths: 0.7 is 700, 0.5 is 500.
P07 == 700
P05 == 500

DiseaseInfo(description, severity, urgency) ==
    [description |-> description, severity |-> severity, urgency |-> urgency]

\* self.disease_info
disease_info ==
    <<[key |-> "Asthma", val |-> DiseaseInfo(
          "condition where airways narrow and swell, producing extra mucus",
          "Moderate", "moderate")],
      [key |-> "Bronchiectasis", val |-> DiseaseInfo(
          "condition where bronchi are abnormally widened and thickened",
          "Severe", "high")],
      [key |-> "Bronchiolitis", val |-> DiseaseInfo(
          "inflammation of the small airways in the lungs",
          "Mild to Moderate", "moderate")],
      [key |-> "COPD", val |-> DiseaseInfo(
          "chronic obstructive pulmonary disease that is progressive",
          "Severe", "high")],
      [key |-> "Healthy", val |-> DiseaseInfo(
          "normal respiratory function with no detected abnormalities",
          "Normal", "low")],
      [key |-> "LRTI", val |-> DiseaseInfo(
          "lower respiratory tract infection affecting lungs and airways",
          "Moderate", "moderate")],
      [key |-> "Pneumonia", val |-> DiseaseInfo(
          "infection that inflames air sacs in one or both lungs",
          "Severe", "high")],
      [key |-> "URTI", val |-> DiseaseInfo(
          "upper respiratory tract infection affecting nose, throat, and sinuses",
          "Mild", "low")]>>

\* dict.get(k, default)
DictGetDefault(d, k, default) == IF k \in DictKeys(d) THEN DictGet(d, k) ELSE default

\* The exception generate_insights has caught: where it was raised and its
\* str(); NoExc while none was.
NoExc == [source |-> "none", message |-> ""]
Exc(source, message) == [source |-> source, message |-> message]

\* ---- the network
\* What one requests.post of _call_gemini_api can do: answer 200 with a body
\* response.json() decodes, answer 200 with a body it cannot decode, answer
\* another status, time out, or raise another exception.
StatusText(code) == IF code = 500 THEN "500" ELSE "429"

\* A faulty variant of the test below: the loop gives up one attempt early.
GivesUpEarly(a) == a = max_retries - 2
\* The loop body of _call_gemini_api has failed at this attempt: is it the
\* last one (attempt == self.max_retries - 1)?
IsFinalAttempt(a) == a = max_retries - 1

\* The message of the exception _call_gemini_api raises on the final attempt.
\* The Exception raised for a status other than 200 is raised inside the try
\* block, so the except-Exception clause catches and wraps it.
CallErrorMessage(outcome) ==
    IF outcome.kind = "timeout"
    THEN "Gemini API timeout after multiple attempts"
    ELSE IF outcome.kind = "non200"
    THEN "Gemini API failed: " \o
         ("Gemini API failed with status " \o StatusText(outcome.code))
    ELSE IF outcome.kind = "bad_body"
    THEN "Gemini API failed: " \o "Expecting value"
    ELSE "Gemini API failed: " \o outcome.text

\* ---- JSON values and response texts
\* A JSON value carries t, its Python type after json.loads, and its content:
\* the text of a str, the items of a list, the ordered dict v of a dict.
JStr(text)  == [t |-> "str", text |-> text]
JList(list) == [t |-> "list", items |-> list]
JDict(dict) == [t |-> "dict", v |-> dict]

\* A response text is a sequence of symbols: a code fence, the language
\* tag json, white space, a JSON document, or other text.
Fence   == [sym |-> "fence"]
JsonTag == [sym |-> "json"]
Space   == [sym |-> "ws"]
Junk    == [sym |-> "junk"]
Doc(j)  == [sym |-> "doc", doc |-> j]

RECURSIVE LStrip(_)
LStrip(text) ==
    IF text # <<>> /\ Head(text).sym = "ws" THEN LStrip(Tail(text)) ELSE text
RECURSIVE RStrip(_)
RStrip(text) ==
    IF text # <<>> /\ text[Len(text)].sym = "ws"
    THEN RStrip(SubSeq(text, 1, Len(text) - 1)) ELSE text
\* str.strip()
Strip(text) == RStrip(LStrip(text))

StartsWithFenceJson(text) ==
    Len(text) >= 2 /\ text[1].sym = "fence" /\ text[2].sym = "json"
StartsWithFence(text) == Len(text) >= 1 /\ text[1].sym = "fence"
EndsWithFence(text) == Len(text) >= 1 /\ text[Len(text)].sym = "fence"

\* A faulty variant of the function below: a leading fence is only taken off
\* together with its language tag.
StripFencesTaggedOnly(text_response) ==
    LET t0 == Strip(text_response)
        t1 == IF StartsWithFenceJson(t0) THEN SubSeq(t0, 3, Len(t0)) ELSE t0
        t2 == IF EndsWithFence(t1) THEN SubSeq(t1, 1, Len(t1) - 1) ELSE t1
    IN  Strip(t2)

\* _parse_gemini_response, lines 232-240: the fences are taken off.
StripFences(text_response) ==
    LET t0 == Strip(text_response)
        t1 == IF StartsWithFenceJson(t0) THEN SubSeq(t0, 3, Len(t0)) ELSE t0
        t2 == IF EndsWithFence(t1) THEN SubSeq(t1, 1, Len(t1) - 1) ELSE t1
        t3 == IF StartsWithFence(t2) THEN SubSeq(t2, 2, Len(t2)) ELSE t2
    IN  Strip(t3)

\* json.loads(text): white space around the one document is accepted.
JsonLoadsOk(text) == Len(Strip(text)) = 1 /\ Strip(text)[1].sym = "doc"
JsonLoads(text) == Strip(text)[1].doc

RequiredFields ==
    <<"summary", "condition_explanation", "insights", "recommendations">>
Subfields == <<"immediate", "monitoring", "lifestyle", "medical">>

\* field.replace(underscore, space).title()
FieldTitle(field) ==
    CASE field = "summary" -> "Summary"
      [] field = "condition_explanation" -> "Condition Explanation"
      [] field = "insights" -> "Insights"
      [] field = "recommendations" -> "Recommendations"

Placeholder(field) == JStr(FieldTitle(field) \o " information not available")
\* A faulty variant of the placeholder below: an empty list.
SubPlaceholderEmpty(subfield) == JList(<<>>)

SubPlaceholder(subfield) ==
    JList(<<JStr("Consult with medical professionals for " \o
                 (subfield \o " guidance"))>>)

\* The dict d with every key of keys it lacks set to its placeholder, in
\* order.
FillMissing(d, keys, placeholders) ==
    DictFromPairs(d \o [i \in 1..Len(keys) |->
        [key |-> keys[i],
         val |-> IF keys[i] \in DictKeys(d) THEN DictGet(d, keys[i])
                 ELSE placeholders[i]]])

ParseError(detail) ==
    Raise("ValueError", "Failed to parse Gemini response: " \o detail)

\* _parse_gemini_response, lines 245-260, on the parsed value.  A value that
\* is not a dict raises TypeError in the item assignment (no string or list
\* of the model contains a field name); so does a 'recommendations' that is
\* not a dict, the placeholder string just assigned to a missing
\* 'recommendations' included.
TypeErrorText(t) ==
    IF t = "str" THEN "'str' object does not support item assignment"
    ELSE "list indices must be integers or slices, not str"

ValidateInsights(parsed_insights) ==
    IF parsed_insights.t # "dict" THEN ParseError(TypeErrorText(parsed_insights.t))
    ELSE LET filled == FillMissing(parsed_insights.v, RequiredFields,
                    [i \in 1..Len(RequiredFields) |-> Placeholder(RequiredFields[i])])
             rec    == DictGet(filled, "recommendations")
         IN  IF rec.t # "dict" THEN ParseError(TypeErrorText(rec.t))
             ELSE Return(DictSet(filled, "recommendations",
                            JDict(FillMissing(rec.v, Subfields,
                                [i \in 1..Len(Subfields) |-> SubPlaceholder(Subfields[i])]))))

\* A faulty variant of the parser below: every response is accepted.
ParseAcceptsAnything(response) ==
    Return(<<[key |-> "summary", val |-> JStr("")]>>)

\* _parse_gemini_response(gemini_response)
ParseGeminiResponse(response) ==
    IF response.candidates = <<>>
    THEN ParseError("No candidates in Gemini response")
    ELSE IF response.candidates[1].parts = <<>>
    THEN ParseError("No parts in Gemini response")
    ELSE LET text_response == response.candidates[1].parts[1].text
         IN  IF text_response = <<>>
             THEN ParseError("No text in Gemini response")
             ELSE IF ~JsonLoadsOk(StripFences(text_response))
             THEN Raise("ValueError",
                        "Invalid JSON response from Gemini: " \o "Expecting value")
             ELSE ValidateInsights(JsonLoads(StripFences(text_response)))

\* ---- the fallback generator
\* A faulty variant of the default entry below: its urgency is high.
DefaultDiseaseInfoUrgent ==
    DiseaseInfo("respiratory condition detected by the system",
                "Requires evaluation", "high")

DefaultDiseaseInfo ==
    DiseaseInfo("respiratory condition detected by the system",
                "Requires evaluation", "moderate")

\* Faulty variants of the rule below: the urgency is ignored; the
\* thresholds are inclusive; a call that follows another one reports HIGH
\* for every condition.
RiskLevelEscalates(prediction, probability, disease_details) ==
    IF prediction = "Healthy" THEN "LOW"
    ELSE IF previous # <<>> THEN "HIGH"
    ELSE IF probability > P07 /\ disease_details.urgency = "high" THEN "HIGH"
    ELSE IF probability > P05 THEN "MODERATE"
    ELSE "LOW"
RiskLevelIgnoresUrgency(prediction, probability, disease_details) ==
    IF prediction = "Healthy" THEN "LOW"
    ELSE IF probability > P07 THEN "HIGH"
    ELSE IF probability > P05 THEN "MODERATE"
    ELSE "LOW"
RiskLevelInclusive(prediction, probability, disease_details) ==
    IF prediction = "Healthy" THEN "LOW"
    ELSE IF probability >= P07 /\ disease_details.urgency = "high" THEN "HIGH"
    ELSE IF probability >= P05 THEN "MODERATE"
    ELSE "LOW"

\* _generate_fallback_insights, lines 290-298
RiskLevel(prediction, probability, disease_details) ==
    IF prediction = "Healthy" THEN "LOW"
    ELSE IF probability > P07 /\ disease_details.urgency = "high" THEN "HIGH"
    ELSE IF probability > P05 THEN "MODERATE"
    ELSE "LOW"

\* f"{probability:.0%}": an uninterpreted text of the probability.
Pct(probability) == <<"pct", probability>>

\* _generate_fallback_insights(prediction_result)
GenerateFallbackInsights(pr) ==
    IF "prediction" \notin DictKeys(pr) THEN Raise("KeyError", "'prediction'")
    ELSE IF "probability" \notin DictKeys(pr) THEN Raise("KeyError", "'probability'")
    ELSE
    LET prediction  == DictGet(pr, "prediction")
        probability == DictGet(pr, "probability")
        disease_details == DictGetDefault(disease_info, prediction, DefaultDiseaseInfo)
    IN  Return(
        <<[key |-> "summary",
           val |-> <<"Analysis indicates possible ", prediction, " with ",
                     Pct(probability), " confidence level">>],
          [key |-> "condition_explanation",
           val |-> <<prediction, " is ", disease_details.description>>],
          [key |-> "confidence_interpretation",
           val |-> <<"Confidence level of ", Pct(probability), " indicates ",
                     IF probability > P07 THEN "strong indication"
                     ELSE IF probability > P05 THEN "moderate possibility"
                     ELSE "weak indication">>],
          [key |-> "insights",
           val |-> <<<<"System detected sound patterns consistent with ", prediction>>,
                     <<"Confidence level of ", Pct(probability),
                       " based on audio feature analysis">>,
                     <<"This result serves as initial screening, not a definitive medical diagnosis">>>>],
          [key |-> "recommendations",
           val |-> <<[key |-> "immediate", val |->
                        <<"Consult with a doctor for further evaluation",
                          "Document any symptoms you are currently experiencing">>],
                     [key |-> "monitoring", val |->
                        <<"Watch for changes in breathing patterns",
                          "Monitor symptoms such as shortness of breath or coughing">>],
                     [key |-> "lifestyle", val |->
                        <<"Avoid cigarette smoke and air pollutants",
                          "Maintain good hand hygiene and clean environment">>],
                     [key |-> "medical", val |->
                        <<"See a doctor immediately if symptoms worsen",
                          "Undergo routine examinations as recommended by medical professionals">>]>>],
          [key |-> "risk_level",
           val |-> RiskLevel(prediction, probability, disease_details)],
          [key |-> "next_steps",
           val |-> "Consult with medical professionals for accurate diagnosis"],
          [key |-> "disclaimer",
           val |-> "This result is an initial screening using AI. Medical consultation is still required for proper diagnosis and treatment."],
          [key |-> "llm_status", val |-> "fallback_used"]>>)

\* ------------------------------------------------------------------------
\* SpecTrim: one call of AudioTrimmer.transform on a one-clip dict, for every
\* clip up to MaxLen samples, every rate up to MaxRate and every target
\* duration TNum/TDen >= 0.
\* ------------------------------------------------------------------------
TrimClips ==
    [data : SeqsUpTo(Samples, MaxLen), sample_rate : 0..MaxRate]

TrimIdle ==
    /\ trim_pc = "idle"
    /\ target_duration = <<0, 1>>
    /\ trim_X = <<>>
    /\ trimmed = <<>>

PipeIdle ==
    /\ disk = <<>>
    /\ pipeline = <<>>
    /\ pipe_pc = "idle"
    /\ pipe_val = <<>>
    /\ pipe_err = <<>>
    /\ pipe_trace = <<>>
    /\ pipe_fail = NoFailure
    /\ pipe_X = <<>>

PredIdle ==
    /\ model_file = <<>>
    /\ wav_file_path = <<>>
    /\ pred_pc = "idle"
    /\ model = <<>>
    /\ model_out = <<>>
    /\ pred_result = <<>>
    /\ pred_err = <<>>
    /\ http_response = NoResponse

ServerIdle ==
    /\ entry = "none"
    /\ model_exists = FALSE
    /\ temp_dir = {}
    /\ uuids = 0
    /\ preprocessing_pipeline = FALSE
    /\ pipeline_inits = 0
    /\ model_loads = 0
    /\ req = <<>>

LlmIdle ==
    /\ prediction_result = <<>>
    /\ llm_pc = "idle"
    /\ attempt = 0
    /\ net_log = <<>>
    /\ gemini_response = <<>>
    /\ llm_exc = NoExc
    /\ insights = <<>>
    /\ api_key = ""
    /\ llm_service = FALSE
    /\ medical = "pending"
    /\ previous = <<>>

CompatIdle ==
    /\ compat_model = <<>>
    /\ compat_pc = "idle"
    /\ model_info = <<>>
    /\ compat_err = <<>>

TrimInit ==
    /\ PipeIdle
    /\ PredIdle
    /\ ServerIdle
    /\ LlmIdle
    /\ CompatIdle
    /\ trim_pc = "call"
    /\ target_duration \in (0..MaxTNum) \X TDens
    /\ \E c \in TrimClips : trim_X = <<[key |-> "clip.wav", val |-> c]>>
    /\ trimmed = <<>>

TrimCall ==
    /\ trim_pc = "call"
    /\ trimmed' = AudioTrimmer_transform(target_duration, trim_X)
    /\ trim_pc' = "done"
    /\ UNCHANGED <<target_duration, trim_X, pipeVars, predVars, serverVars, llmVars, compatVars>>

TrimNext == TrimCall

SpecTrim == TrimInit /\ [][TrimNext]_vars

\* ------------------------------------------------------------------------
\* SpecPipe: Pipeline.transform(X) of a pipeline built by
\* create_respiratory_pipeline, on a batch X of at most MaxBatch paths.  The
\* steps run in the order of pipeline.steps, each on the previous one's
\* result; an exception in a step ends the run.
\* ------------------------------------------------------------------------
Pipelines ==
    {DefaultPipeline,
     create_respiratory_pipeline(Arg(<<5, 1>>), Arg(<<"test_feature">>)),
     create_respiratory_pipeline(NoArg, Arg(<<>>))}

PipeInit ==
    /\ TrimIdle
    /\ PredIdle
    /\ ServerIdle
    /\ LlmIdle
    /\ CompatIdle
    /\ disk \in [Paths -> FileStates]
    /\ pipeline \in Pipelines
    /\ pipe_pc = "run"
    /\ pipe_X \in SeqsUpTo(Paths, MaxBatch)
    /\ pipe_val = pipe_X
    /\ pipe_err = <<>>
    /\ pipe_trace = <<>>
    /\ pipe_fail = NoFailure

\* The step Pipeline.transform runs next.
NextStep ==
    IF pipe_pc = "run" THEN pipeline.steps[Len(pipe_trace) + 1] ELSE "none"

\* A step has produced r: hand its value on, or end the run with its error.
StepEnds(name, r) ==
    /\ IF r.ok
       THEN /\ pipe_val' = r.val
            /\ pipe_err' = pipe_err
            /\ pipe_trace' = Append(pipe_trace, name)
            /\ pipe_pc' = IF Len(pipe_trace) + 1 = Len(pipeline.steps)
                          THEN "done" ELSE "run"
       ELSE /\ pipe_err' = r.val
            /\ pipe_pc' = "error"
            /\ UNCHANGED <<pipe_val, pipe_trace>>
    /\ UNCHANGED <<disk, pipeline, pipe_X, trimVars, predVars, serverVars, llmVars, compatVars>>

LoadAudio ==
    /\ NextStep = "load_audio"
    /\ StepEnds("load_audio", AudioLoader_transform(disk, pipe_val))
    /\ UNCHANGED pipe_fail

TrimAudio ==
    /\ NextStep = "trim_audio"
    /\ StepEnds("trim_audio",
                Return(AudioTrimmer_transform(pipeline.target_duration, pipe_val)))
    /\ UNCHANGED pipe_fail

ExtractFeatures ==
    /\ NextStep = "extract_features"
    /\ \E fail \in {NoFailure} \cup
                   ((1..Len(pipe_val)) \X {Families[i] : i \in 1..Len(Families)}
                        \X LibrosaErrors) :
          /\ StepEnds("extract_features", FeatureExtractor_transform(pipe_val, fail))
          /\ pipe_fail' = fail

CalculateStatistics ==
    /\ NextStep = "calculate_statistics"
    /\ StepEnds("calculate_statistics",
                Return(FeatureStatisticsCalculator_transform(
                           pipeline.excluded_features, pipe_val)))
    /\ UNCHANGED pipe_fail

PipeNext ==
    \/ LoadAudio
    \/ TrimAudio
    \/ ExtractFeatures
    \/ CalculateStatistics

SpecPipe == PipeInit /\ [][PipeNext]_vars

\* ------------------------------------------------------------------------
\* SpecPredict: one call predict_respiratory_condition(wav_file_path,
\* model_path).  The call validates its inputs, loads the model, builds the
\* default pipeline and runs it on [wav_file_path] (the four pipeline
\* actions above), calls the classifier and assembles the result.
\* ------------------------------------------------------------------------
PredInit ==
    /\ TrimIdle
    /\ ServerIdle
    /\ LlmIdle
    /\ CompatIdle
    /\ wav_file_path \in Paths
    /\ \E c \in FileStates :
          disk = [p \in Paths |-> IF p = wav_file_path THEN c
                                  ELSE [kind |-> "missing"]]
    /\ model_file \in ModelFiles
    /\ pred_pc = "validate"
    /\ model = <<>>
    /\ model_out = <<>>
    /\ pred_result = <<>>
    /\ pred_err = <<>>
    /\ http_response = NoResponse
    /\ pipeline = <<>>
    /\ pipe_pc = "idle"
    /\ pipe_val = <<>>
    /\ pipe_err = <<>>
    /\ pipe_trace = <<>>
    /\ pipe_fail = NoFailure
    /\ pipe_X = <<>>

PredRaise(type, message) ==
    /\ pred_err' = [type |-> type, message |-> message]
    /\ pred_pc' = "error"

\* os.path.exists(model_path), os.path.exists(wav_file_path)
ValidateInputs ==
    /\ pred_pc = "validate"
    /\ IF model_file.kind = "missing"
       THEN PredRaise("FileNotFoundError", <<"Model file not found">>)
       ELSE IF disk[wav_file_path].kind = "missing"
       THEN PredRaise("FileNotFoundError", <<"Audio file not found">>)
       ELSE pred_pc' = "load_model" /\ UNCHANGED pred_err
    /\ UNCHANGED <<http_response, model_file, wav_file_path, model, model_out, pred_result,
                   pipeVars, trimVars, serverVars, llmVars, compatVars>>

\* model = joblib.load(model_path); create_respiratory_pipeline();
\* preprocessing_pipeline.transform([wav_file_path]) begins
LoadModel ==
    /\ pred_pc = "load_model"
    /\ IF model_file.kind = "unloadable"
       THEN /\ PredRaise("ValueError", <<"Prediction failed", "joblib.load">>)
            /\ UNCHANGED <<model, pipeVars>>
       ELSE /\ model' = model_file
            /\ pipeline' = DefaultPipeline
            /\ pipe_X' = <<wav_file_path>>
            /\ pipe_val' = <<wav_file_path>>
            /\ pipe_pc' = "run"
            /\ pred_pc' = "pipeline"
            /\ UNCHANGED <<pred_err, disk, pipe_err, pipe_trace, pipe_fail>>
    /\ UNCHANGED <<http_response, model_file, wav_file_path, model_out, pred_result, trimVars,
                   serverVars, llmVars, compatVars>>

\* An exception of a pipeline step reaches the except clause.
PipelineRaised ==
    /\ pred_pc = "pipeline"
    /\ pipe_pc = "error"
    /\ PredRaise("ValueError", <<"Prediction failed", pipe_err.type>>)
    /\ UNCHANGED <<http_response, model_file, wav_file_path, model, model_out, pred_result,
                   pipeVars, trimVars, serverVars, llmVars, compatVars>>

\* A faulty variant of the action below: the classifier is called without
\* waiting for the pipeline to finish.
ClassifyEarly ==
    /\ pred_pc = "pipeline"
    /\ pipe_pc \in {"run", "done"}
    /\ \E code \in (-MaxCode)..MaxCode, probabilities \in ProbVectors(model.n_classes) :
          LET features_df == IF pipe_pc = "done" THEN pipe_val
                             ELSE [columns |-> <<>>, rows |-> <<>>]
              r == AssembleResult(code, probabilities, features_df)
          IN  /\ model_out' = [prediction_code |-> code,
                               probabilities   |-> probabilities]
              /\ IF r.ok
                 THEN /\ pred_result' = r.val
                      /\ pred_pc' = "done"
                      /\ UNCHANGED pred_err
                 ELSE /\ PredRaise(r.val.type, r.val.message)
                      /\ UNCHANGED pred_result
    /\ UNCHANGED <<http_response, model_file, wav_file_path, model, pipeVars, trimVars,
                   serverVars, llmVars, compatVars>>

\* model.predict(features_df)[0], model.predict_proba(features_df)[0] and the
\* rest of the try block.
Classify ==
    /\ pred_pc = "pipeline"
    /\ pipe_pc = "done"
    /\ \E code \in (-MaxCode)..MaxCode, probabilities \in ProbVectors(model.n_classes) :
          LET r == AssembleResult(code, probabilities, pipe_val)
          IN  /\ model_out' = [prediction_code |-> code,
                               probabilities   |-> probabilities]
              /\ IF r.ok
                 THEN /\ pred_result' = r.val
                      /\ pred_pc' = "done"
                      /\ UNCHANGED pred_err
                 ELSE /\ PredRaise(r.val.type, r.val.message)
                      /\ UNCHANGED pred_result
    /\ UNCHANGED <<http_response, model_file, wav_file_path, model, pipeVars, trimVars,
                   serverVars, llmVars, compatVars>>

\* The classifier itself raises (for instance on a record of a width it was
\* not trained on).
ClassifierRaises ==
    /\ pred_pc = "pipeline"
    /\ pipe_pc = "done"
    /\ PredRaise("ValueError", <<"Prediction failed", "classifier">>)
    /\ UNCHANGED <<http_response, model_file, wav_file_path, model, model_out, pred_result,
                   pipeVars, trimVars, serverVars, llmVars, compatVars>>

\* app.py 138-181: predict_respiratory_disease answers to the outcome of the
\* call.  A result goes into a PredictionResponse, whose prediction_code
\* field is declared ge=0, and is sent with status 200; an exception is
\* answered by the except clause of its type.
HandlerResponds ==
    /\ pred_pc \in {"done", "error"}
    /\ http_response = NoResponse
    /\ http_response' = IF pred_pc = "error" THEN Response(ExceptStatus(pred_err.type))
                   ELSE IF pred_result.prediction_code < 0
                   THEN Response(ExceptStatus("ValidationError"))
                   ELSE Response(200)
    /\ UNCHANGED <<model_file, wav_file_path, pred_pc, model, model_out,
                   pred_result, pred_err, pipeVars, trimVars, serverVars, llmVars, compatVars>>

PredNext ==
    \/ ValidateInputs
    \/ LoadModel
    \/ LoadAudio
    \/ TrimAudio
    \/ ExtractFeatures
    \/ CalculateStatistics
    \/ PipelineRaised
    \/ Classify
    \/ ClassifierRaises
    \/ HandlerResponds

SpecPredict == PredInit /\ [][PredNext]_vars

\* ------------------------------------------------------------------------
\* SpecServer: one server process (started by app.py or by run.py, which
\* runs Flask with threaded=True) serving MaxReq requests, each in its own
\* thread: POST /api/predict (predict_respiratory_disease) or
\* GET /api/pipeline/status (get_pipeline_status).  Threads interleave
\* between the steps below.
\* ------------------------------------------------------------------------
Upload(has_audio, stem, suffix, content_type, size) ==
    [has_audio |-> has_audio, filename |-> [stem |-> stem, suffix |-> suffix],
     content_type |-> content_type, size |-> size]

\* The multipart bodies of a POST /api/predict: no 'audio' part, an empty
\* file name, a wrong extension, a wrong MIME type, and valid uploads below,
\* at and above MAX_FILE_SIZE.
Uploads ==
    {Upload(FALSE, "", "", "", 0),
     Upload(TRUE, "", "", "", 0),
     Upload(TRUE, "notes", ".txt", "text/plain", 1024),
     Upload(TRUE, "x", ".wav", "text/plain", 1024),
     Upload(TRUE, "x", ".wav", "audio/wav", 1024),
     Upload(TRUE, "x", ".WAV", "", MAX_FILE_SIZE),
     Upload(TRUE, "x", ".wav", "audio/wav", MAX_FILE_SIZE + 1)}

Threads == 1..MaxReq

NewThread ==
    [pc |-> "idle", kind |-> "none", file |-> Upload(FALSE, "", "", "", 0),
     temp_file_path |-> NoPath, called |-> FALSE, status |-> 0, error |-> ""]

ServerInit ==
    /\ TrimIdle
    /\ PipeIdle
    /\ PredIdle
    /\ LlmIdle
    /\ CompatIdle
    /\ entry \in {"app.py", "run.py"}
    /\ model_exists \in BOOLEAN
    /\ temp_dir = {}
    /\ uuids = 0
    \* app.py calls get_preprocessing_pipeline() before app.run(); run.py
    \* keeps the pipeline it creates in a local variable of main().
    /\ preprocessing_pipeline = (entry = "app.py")
    /\ pipeline_inits = IF entry = "app.py" THEN 1 ELSE 0
    /\ model_loads = 0
    /\ req = [t \in Threads |-> NewThread]

ServerOthers == <<trimVars, pipeVars, predVars, llmVars, compatVars>>

\* A request arrives and Flask hands it to a thread; threads are taken in
\* order.
Arrive(t) ==
    /\ req[t].pc = "idle"
    /\ \A u \in Threads : u < t => req[u].pc # "idle"
    /\ \/ \E f \in Uploads :
            req' = [req EXCEPT ![t].pc = "validate", ![t].kind = "predict",
                               ![t].file = f]
       \/ req' = [req EXCEPT ![t].pc = "check", ![t].kind = "status"]
    /\ UNCHANGED <<entry, model_exists, temp_dir, uuids, preprocessing_pipeline,
                   pipeline_inits, model_loads, ServerOthers>>

\* An except clause of predict_respiratory_disease has built the response;
\* the finally clause is next.
Caught(t, status) ==
    [req EXCEPT ![t].pc = "finally", ![t].status = status,
                ![t].error = ErrorBody(status)]

\* app.py 104-113: the checks on the request.
ReqValidate(t) ==
    /\ req[t].pc = "validate"
    /\ LET file == req[t].file
       IN  req' = IF ~file.has_audio THEN Caught(t, 400)
                  ELSE IF file.filename.stem = "" /\ file.filename.suffix = ""
                  THEN Caught(t, 400)
                  ELSE IF ~validate_audio_file(file) THEN Caught(t, 400)
                  ELSE [req EXCEPT ![t].pc = "save"]
    /\ UNCHANGED <<entry, model_exists, temp_dir, uuids, preprocessing_pipeline,
                   pipeline_inits, model_loads, ServerOthers>>

\* A faulty variant of the function below: every request gets the same uuid.
SharedFilename(n, file) == [uuid |-> 0, ext |-> file.filename.suffix]

\* app.py 120-121: f"{uuid.uuid4()}{file_extension}"; n stands for the n-th
\* uuid drawn by the process, and no two draws give the same value.
UniqueFilename(n, file) == [uuid |-> n, ext |-> file.filename.suffix]

\* app.py 116-126: the unique name and file.save(temp_file_path).  The save
\* can raise after it has created the file.
ReqSave(t) ==
    /\ req[t].pc = "save"
    /\ LET name == UniqueFilename(uuids + 1, req[t].file)
       IN  /\ uuids' = uuids + 1
           /\ temp_dir' = temp_dir \cup {name}
           /\ \/ req' = [req EXCEPT ![t].pc = "size",
                                    ![t].temp_file_path = <<name>>]
              \/ req' = [Caught(t, 500) EXCEPT ![t].temp_file_path = <<name>>]
    /\ UNCHANGED <<entry, model_exists, preprocessing_pipeline,
                   pipeline_inits, model_loads, ServerOthers>>

\* app.py 129-131: the size of the saved file.
ReqSize(t) ==
    /\ req[t].pc = "size"
    /\ req' = IF req[t].temp_file_path[1] \notin temp_dir THEN Caught(t, 500)
              ELSE IF req[t].file.size > MAX_FILE_SIZE THEN Caught(t, 400)
              ELSE [req EXCEPT ![t].pc = "predict"]
    /\ UNCHANGED <<entry, model_exists, temp_dir, uuids, preprocessing_pipeline,
                   pipeline_inits, model_loads, ServerOthers>>

\* app.py 134-157 with pipeline.py 319-383: the call of
\* predict_respiratory_condition(temp_file_path, model_path) and the
\* response.  The call raises FileNotFoundError when the model or the audio
\* file is missing; otherwise it loads the model with joblib.load and either
\* returns a result or raises ValueError.
ReqPredict(t) ==
    /\ req[t].pc = "predict"
    /\ IF ~model_exists \/ req[t].temp_file_path[1] \notin temp_dir
       THEN /\ req' = [Caught(t, ExceptStatus("FileNotFoundError"))
                           EXCEPT ![t].called = TRUE]
            /\ UNCHANGED model_loads
       ELSE /\ model_loads' = model_loads + 1
            /\ \/ req' = [Caught(t, 200) EXCEPT ![t].called = TRUE]
               \/ req' = [Caught(t, ExceptStatus("ValueError"))
                              EXCEPT ![t].called = TRUE]
    /\ UNCHANGED <<entry, model_exists, temp_dir, uuids, preprocessing_pipeline,
                   pipeline_inits, ServerOthers>>

\* app.py 183-190: the finally clause; the response goes out after it.
ReqFinally(t) ==
    /\ req[t].pc = "finally"
    /\ temp_dir' = CleanupTempFile(temp_dir, req[t].temp_file_path)
    /\ req' = [req EXCEPT ![t].pc = "done"]
    /\ UNCHANGED <<entry, model_exists, uuids, preprocessing_pipeline,
                   pipeline_inits, model_loads, ServerOthers>>

\* get_preprocessing_pipeline, line 51: the test of the global.
PipelineCheck(t) ==
    /\ req[t].pc = "check"
    /\ req' = [req EXCEPT ![t].pc = IF preprocessing_pipeline
                                    THEN "return" ELSE "create"]
    /\ UNCHANGED <<entry, model_exists, temp_dir, uuids, preprocessing_pipeline,
                   pipeline_inits, model_loads, ServerOthers>>

\* get_preprocessing_pipeline, lines 52-53: create the pipeline, store it.
PipelineCreate(t) ==
    /\ req[t].pc = "create"
    /\ pipeline_inits' = pipeline_inits + 1
    /\ preprocessing_pipeline' = TRUE
    /\ req' = [req EXCEPT ![t].pc = "return"]
    /\ UNCHANGED <<entry, model_exists, temp_dir, uuids, model_loads,
                   ServerOthers>>

\* get_pipeline_status answers with the pipeline's configuration.
StatusRespond(t) ==
    /\ req[t].pc = "return"
    /\ req' = [req EXCEPT ![t].pc = "done", ![t].status = 200]
    /\ UNCHANGED <<entry, model_exists, temp_dir, uuids, preprocessing_pipeline,
                   pipeline_inits, model_loads, ServerOthers>>

ServerNext ==
    \E t \in Threads :
        \/ Arrive(t)
        \/ ReqValidate(t)
        \/ ReqSave(t)
        \/ ReqSize(t)
        \/ ReqPredict(t)
        \/ ReqFinally(t)
        \/ PipelineCheck(t)
        \/ PipelineCreate(t)
        \/ StatusRespond(t)

SpecServer == ServerInit /\ [][ServerNext]_vars

\* ------------------------------------------------------------------------
\* SpecLLM: one call of GeminiLLMService.generate_insights on a prediction
\* result, against a network that may fail at every attempt.
\* ------------------------------------------------------------------------
LlmLabels == {"Healthy", "Pneumonia", "Asthma", "URTI", "Martian"}
LlmProbabilities == {490, 500, 505, 700, 710}
InputFields == <<"prediction", "probability", "all_probabilities">>

\* The prediction results: well formed, or with one of the fields missing.
FullResult(label, p) ==
    <<[key |-> "prediction", val |-> label],
      [key |-> "probability", val |-> p],
      [key |-> "all_probabilities", val |-> <<[key |-> label, val |-> p]>>]>>
PredictionResults ==
    { FullResult(l, p) : l \in LlmLabels, p \in LlmProbabilities }
    \cup { SelectSeq(FullResult(l, 710), LAMBDA e : e.key # f) :
             l \in {"Healthy", "Pneumonia"},
             f \in {"prediction", "probability", "all_probabilities"} }

\* The JSON documents the model may answer with.
FullRecommendations ==
    JDict([i \in 1..Len(Subfields) |->
              [key |-> Subfields[i], val |-> JList(<<JStr("advice")>>)]])
FullDoc ==
    JDict(<<[key |-> "summary", val |-> JStr("s")],
            [key |-> "condition_explanation", val |-> JStr("c")],
            [key |-> "confidence_interpretation", val |-> JStr("ci")],
            [key |-> "insights", val |-> JList(<<JStr("i")>>)],
            [key |-> "recommendations", val |-> FullRecommendations],
            [key |-> "risk_level", val |-> JStr("HIGH")],
            [key |-> "next_steps", val |-> JStr("n")],
            [key |-> "disclaimer", val |-> JStr("d")]>>)
Docs ==
    { FullDoc,
      JDict(SelectSeq(FullDoc.v, LAMBDA e : e.key # "recommendations")),
      JDict(SelectSeq(FullDoc.v, LAMBDA e : e.key # "summary")),
      JDict(SelectSeq(FullDoc.v, LAMBDA e : e.key # "insights")),
      JDict(SelectSeq(FullDoc.v, LAMBDA e : e.key # "risk_level")),
      JDict(DictSet(FullDoc.v, "recommendations",
                    JDict(<<[key |-> "immediate", val |-> JList(<<>>)]>>))),
      JDict(DictSet(FullDoc.v, "recommendations",
                    JDict(<<[key |-> "medical", val |-> JList(<<JStr("see a doctor")>>)],
                            [key |-> "monitoring", val |-> JList(<<JStr("a"), JStr("b")>>)]>>))),
      JDict(DictSet(FullDoc.v, "recommendations", JDict(<<>>))),
      JDict(DictSet(FullDoc.v, "recommendations", JList(<<JStr("rest")>>))),
      JDict(DictSet(FullDoc.v, "llm_status", JStr("fallback_used"))),
      JList(<<JStr("x")>>),
      JStr("x") }

Texts ==
    { <<Junk>>, <<Fence, JsonTag, Junk, Fence>> }
    \cup { <<Doc(FullDoc)>>,
           <<Space, Doc(FullDoc), Space>>,
           <<Fence, Doc(FullDoc), Fence>>,
           <<Fence, JsonTag, Doc(FullDoc)>>,
           <<Fence, Doc(FullDoc)>>,
           <<Doc(FullDoc), Fence>>,
           <<Junk, Doc(FullDoc)>>,
           <<Doc(FullDoc), Doc(FullDoc)>> }
    \cup { <<Space, Fence, JsonTag, Space, Doc(j), Space, Fence, Space>> : j \in Docs }

Envelope(text) == [candidates |-> <<[parts |-> <<[text |-> text]>>]>>]
Envelopes ==
    { [candidates |-> <<>>], [candidates |-> <<[parts |-> <<>>]>>], Envelope(<<>>) }
    \cup { Envelope(t) : t \in Texts }

NetOutcomes ==
    { [kind |-> "ok", body |-> e] : e \in Envelopes }
    \cup { [kind |-> "bad_body"], [kind |-> "timeout"],
           [kind |-> "non200", code |-> 500],
           [kind |-> "exception", text |-> "Connection refused"] }

\* int((datetime.now() - start_time).total_seconds() * 1000)
ElapsedMs == {0, 12}

LlmInit ==
    /\ TrimIdle
    /\ PipeIdle
    /\ PredIdle
    /\ ServerIdle
    /\ CompatIdle
    /\ prediction_result \in PredictionResults
    /\ llm_pc = "get_service"
    /\ attempt = 0
    /\ net_log = <<>>
    /\ gemini_response = <<>>
    /\ llm_exc = NoExc
    /\ insights = <<>>
    /\ api_key \in {"", "key"}
    /\ llm_service = FALSE
    /\ medical = "pending"
    /\ previous = <<>>

LlmOthers == <<trimVars, pipeVars, predVars, serverVars, compatVars>>

\* generate_medical_insights, lines 412-416, with get_llm_service: the
\* service is created on first use if an API key is configured; without a
\* service the call returns None.
LlmGetService ==
    /\ llm_pc = "get_service"
    /\ IF llm_service \/ api_key # ""
       THEN /\ llm_service' = TRUE
            /\ llm_pc' = "validate"
            /\ UNCHANGED medical
       ELSE /\ medical' = "None"
            /\ llm_pc' = "returned"
            /\ UNCHANGED llm_service
    /\ UNCHANGED <<prediction_result, attempt, net_log, gemini_response,
                   llm_exc, insights, api_key, previous, LlmOthers>>

\* A faulty variant of the action below: an exception of generate_insights
\* is not caught and leaves generate_medical_insights.
LlmReturnPropagates ==
    /\ llm_pc \in {"done", "raised"}
    /\ medical' = IF llm_pc = "done" THEN "insights" ELSE "raised"
    /\ llm_pc' = "returned"
    /\ UNCHANGED <<prediction_result, attempt, net_log, gemini_response,
                   llm_exc, insights, api_key, llm_service, previous, LlmOthers>>

\* generate_medical_insights, lines 418-423: the result of generate_insights
\* is returned, None if it raised.
LlmReturn ==
    /\ llm_pc \in {"done", "raised"}
    /\ medical' = IF llm_pc = "done" THEN "insights" ELSE "None"
    /\ llm_pc' = "returned"
    /\ UNCHANGED <<prediction_result, attempt, net_log, gemini_response,
                   llm_exc, insights, api_key, llm_service, previous, LlmOthers>>

\* generate_insights, lines 346-354: the input check and the prompt.
LlmValidate ==
    /\ llm_pc = "validate"
    /\ LET missing == SelectSeq(InputFields,
                                LAMBDA f : f \notin DictKeys(prediction_result))
       IN  IF missing # <<>>
           THEN /\ llm_exc' = Exc("validate",
                                  "Missing required field: " \o Head(missing))
                /\ llm_pc' = "fallback"
           ELSE /\ llm_pc' = "call"
                /\ UNCHANGED llm_exc
    /\ UNCHANGED <<prediction_result, attempt, net_log, gemini_response,
                   insights, api_key, llm_service, medical,
                   previous, LlmOthers>>

\* _call_gemini_api: one iteration of the retry loop, or the statement after
\* the loop once range(self.max_retries) is exhausted.
LlmAttempt ==
    /\ llm_pc = "call"
    /\ IF attempt >= max_retries
       THEN /\ llm_exc' = Exc("call", "Gemini API failed after all retries")
            /\ llm_pc' = "fallback"
            /\ UNCHANGED <<attempt, net_log, gemini_response>>
       ELSE \E outcome \in NetOutcomes :
            /\ net_log' = Append(net_log, outcome.kind)
            /\ IF outcome.kind = "ok"
               THEN /\ gemini_response' = outcome.body
                    /\ llm_pc' = "parse"
                    /\ UNCHANGED <<attempt, llm_exc>>
               ELSE IF IsFinalAttempt(attempt)
               THEN /\ llm_exc' = Exc("call", CallErrorMessage(outcome))
                    /\ llm_pc' = "fallback"
                    /\ UNCHANGED <<attempt, gemini_response>>
               ELSE /\ attempt' = attempt + 1
                    /\ UNCHANGED <<llm_pc, llm_exc, gemini_response>>
    /\ UNCHANGED <<prediction_result, insights, api_key, llm_service, medical,
                   previous, LlmOthers>>

\* generate_insights, lines 359-366: the response is parsed and returned.
LlmParse ==
    /\ llm_pc = "parse"
    /\ LET r == ParseGeminiResponse(gemini_response)
       IN  IF r.ok
           THEN \E ms \in ElapsedMs :
                /\ insights' = DictSet(DictSet(r.val, "llm_status", "success"),
                                       "processing_time_ms", ms)
                /\ llm_pc' = "done"
                /\ UNCHANGED llm_exc
           ELSE /\ llm_exc' = Exc("parse", r.val.message)
                /\ llm_pc' = "fallback"
                /\ UNCHANGED insights
    /\ UNCHANGED <<prediction_result, attempt, net_log, gemini_response, api_key,
                   llm_service, medical,
                   previous, LlmOthers>>

\* generate_insights, lines 368-378: the except clause.
LlmFallback ==
    /\ llm_pc = "fallback"
    /\ LET r == GenerateFallbackInsights(prediction_result)
       IN  IF r.ok
           THEN \E ms \in ElapsedMs :
                /\ insights' = DictSet(DictSet(r.val, "processing_time_ms", ms),
                                       "error_message", llm_exc.message)
                /\ llm_pc' = "done"
                /\ UNCHANGED llm_exc
           ELSE /\ llm_exc' = Exc("fallback", r.val.message)
                /\ llm_pc' = "raised"
                /\ UNCHANGED insights
    /\ UNCHANGED <<prediction_result, attempt, net_log, gemini_response, api_key,
                   llm_service, medical,
                   previous, LlmOthers>>

\* The caller calls generate_medical_insights again with the same
\* prediction result, on the same process (same environment, same global
\* service).
LlmCallAgain ==
    /\ llm_pc = "returned"
    /\ previous' = IF medical = "insights" THEN insights ELSE previous
    /\ llm_pc' = "get_service"
    /\ attempt' = 0
    /\ net_log' = <<>>
    /\ gemini_response' = <<>>
    /\ llm_exc' = NoExc
    /\ insights' = <<>>
    /\ medical' = "pending"
    /\ UNCHANGED <<prediction_result, api_key, llm_service, LlmOthers>>

LlmNext ==
    \/ LlmGetService
    \/ LlmReturn
    \/ LlmValidate
    \/ LlmAttempt
    \/ LlmParse
    \/ LlmFallback

SpecLLM == LlmInit /\ [][LlmNext]_vars

\* ------------------------------------------------------------------------
\* SpecLLMRepeat: generate_medical_insights called again and again with one
\* prediction result, as in the loop of test_llm_integration.py.
\* ------------------------------------------------------------------------
LlmRepeatInit ==
    /\ LlmInit
    /\ prediction_result \in
          { FullResult(l, p) : l \in {"Healthy", "Pneumonia", "Martian"}, p \in {500, 710} }
    /\ api_key = "key"

LlmRepeatNext == LlmNext \/ LlmCallAgain

SpecLLMRepeat == LlmRepeatInit /\ [][LlmRepeatNext]_vars

\* ------------------------------------------------------------------------
\* SpecCompat: one call validate_model_compatibility(model_path), for a
\* missing file, a file joblib cannot load and every loaded object with or
\* without predict, predict_proba and classes_, of 0..MaxClasses classes.
\* ------------------------------------------------------------------------
LoadedModels ==
    {m \in [kind : {"object"}, model_type : {"RandomForestClassifier", "Pipeline"},
            has_predict : BOOLEAN, has_predict_proba : BOOLEAN,
            has_classes : BOOLEAN, n_classes : 0..MaxClasses] :
        m.has_classes \/ m.n_classes = 0}

CompatInit ==
    /\ TrimIdle
    /\ PipeIdle
    /\ PredIdle
    /\ ServerIdle
    /\ LlmIdle
    /\ compat_model \in {[kind |-> "missing"], [kind |-> "unloadable"]} \cup LoadedModels
    /\ compat_pc = "call"
    /\ model_info = <<>>
    /\ compat_err = <<>>

CompatCall ==
    /\ compat_pc = "call"
    /\ LET r == validate_model_compatibility(compat_model)
       IN  IF r.ok
           THEN model_info' = r.val /\ compat_pc' = "returned" /\ UNCHANGED compat_err
           ELSE compat_err' = r.val /\ compat_pc' = "raised" /\ UNCHANGED model_info
    /\ UNCHANGED <<compat_model, trimVars, pipeVars, predVars, serverVars, llmVars>>

CompatNext == CompatCall

SpecCompat == CompatInit /\ [][CompatNext]_vars

\* ------------------------------------------------------------------ claims

\* floor(T * R) for T = num/den >= 0, as the claims state it.
FloorTR(T, R) == (T[1] * R) \div T[2]

\* C1: for every input clip (shorter than, longer than or exactly the target
\* length, the empty clip included), every target duration T and sample rate
\* R, the clip returned by AudioTrimmer.transform has exactly floor(T*R)
\* samples.
C1_DurationInvariant ==
    trim_pc = "done" =>
        \A i \in 1..Len(trim_X) :
            Len(DictGet(trimmed, trim_X[i].key).data)
                = FloorTR(target_duration, trim_X[i].val.sample_rate)

C1_Witness ==
    /\ trim_pc = "done"
    /\ Len(trim_X[1].val.data) < Len(trimmed[1].val.data)
    /\ Len(trimmed[1].val.data) = 3

\* The 30 column names of the feature record, in the order of the spec:
\* families in extraction order, statistics (mean, std, max, min) within a
\* family, without mel_spectrogram_min and chroma_stft_max.
ExpectedColumns ==
    <<"chroma_stft_mean", "chroma_stft_std", "chroma_stft_min",
      "mfcc_mean", "mfcc_std", "mfcc_max", "mfcc_min",
      "mel_spectrogram_mean", "mel_spectrogram_std", "mel_spectrogram_max",
      "spectral_contrast_mean", "spectral_contrast_std",
      "spectral_contrast_max", "spectral_contrast_min",
      "spectral_centroid_mean", "spectral_centroid_std",
      "spectral_centroid_max", "spectral_centroid_min",
      "spectral_bandwidth_mean", "spectral_bandwidth_std",
      "spectral_bandwidth_max", "spectral_bandwidth_min",
      "spectral_rolloff_mean", "spectral_rolloff_std",
      "spectral_rolloff_max", "spectral_rolloff_min",
      "zero_crossing_rate_mean", "zero_crossing_rate_std",
      "zero_crossing_rate_max", "zero_crossing_rate_min">>

RowKeys(row) == [i \in 1..Len(row) |-> row[i].key]

\* C2: for any valid clip processed by the default pipeline, the record made
\* by FeatureStatisticsCalculator.transform has exactly 30 columns, ordered
\* by family in extraction order and by (mean, std, max, min) within a
\* family, and mel_spectrogram_min and chroma_stft_max are never present.
C2_RecordWidthOrder ==
    (pipe_pc = "done" /\ pipeline = DefaultPipeline /\ Len(pipe_val.rows) > 0) =>
        /\ Len(pipe_val.columns) = 30
        /\ pipe_val.columns = ExpectedColumns
        /\ \A i \in 1..Len(pipe_val.rows) :
              RowKeys(pipe_val.rows[i]) = ExpectedColumns
        /\ ~InSeq("mel_spectrogram_min", pipe_val.columns)
        /\ ~InSeq("chroma_stft_max", pipe_val.columns)

C2_Witness ==
    /\ pipe_pc = "done"
    /\ pipeline = DefaultPipeline
    /\ Len(pipe_val.rows) = 1
    /\ Len(pipe_val.columns) = 30

\* The classifier has been called in this run and returned.
Classified == pred_pc \in {"done", "error"} /\ model_out # <<>>

\* Position, counted from 0, of a label in the fixed enumeration.
LabelIndex(label) ==
    CHOOSE i \in 0..7 :
        <<"Asthma", "Bronchiectasis", "Bronchiolitis", "COPD",
          "Healthy", "LRTI", "Pneumonia", "URTI">>[i + 1] = label

\* C3: for every class index i in 0..7 returned by the classifier,
\* predict_respiratory_condition returns the label at position i of the
\* enumeration Asthma=0 .. URTI=7 together with prediction_code = i, so that
\* mapping the label back to its index yields i.  (A call can still fail
\* after the classifier returned i, but only while building the probability
\* dict of a classifier with more than 8 classes.)
C3_LabelRoundTrip ==
    (Classified /\ model_out.prediction_code \in 0..7) =>
        /\ pred_pc = "error" => Len(model_out.probabilities) > 8
        /\ pred_pc = "done" =>
            /\ pred_result.prediction_code = model_out.prediction_code
            /\ LabelIndex(pred_result.prediction) = model_out.prediction_code

C3_Witness ==
    /\ pred_pc = "done"
    /\ model_out.prediction_code = 6
    /\ pred_result.prediction = "Pneumonia"

\* C4: whenever the classifier returns a class index outside 0..7 (8 or
\* larger, or negative), predict_respiratory_condition fails and returns no
\* label obtained by indexing the label list with that index.
C4_OutOfRangeRejected ==
    (Classified /\ model_out.prediction_code \notin 0..7) => pred_pc = "error"

\* C5: every result returned by predict_respiratory_condition has exactly
\* the 8 enumeration labels as keys of all_probabilities, in enumeration
\* order, each mapped to the classifier's probability at the same index,
\* whatever the number of classes of the loaded classifier.
C5_AllLabelsPresent ==
    pred_pc = "done" =>
        /\ Len(pred_result.all_probabilities) = 8
        /\ \A i \in 1..8 :
              /\ pred_result.all_probabilities[i].key = DiagnosisLabels[i]
              /\ pred_result.all_probabilities[i].val = model_out.probabilities[i]

C7_LoadedAtMostOnce == model_loads <= 1

\* C8: when two or more requests concurrently perform the first access to
\* the lazily initialised pipeline handle, the initialisation runs exactly
\* once.
C8_InitialisedOnce == pipeline_inits <= 1

\* C9: for a well-formed prediction result generate_insights always returns;
\* the result has llm_status 'success' exactly when neither the API call nor
\* the parsing raised, and otherwise it is the fallback record, with
\* llm_status 'fallback_used' and the text of the caught exception in
\* error_message (three timeouts give the timeout text, an answer that is no
\* JSON gives the fallback).
WellFormedInput == \A f \in {"prediction", "probability", "all_probabilities"} :
                       f \in DictKeys(prediction_result)
C9_SuccessIffNoRaise ==
    WellFormedInput =>
        /\ llm_pc # "raised"
        /\ llm_pc = "done" =>
            /\ DictGet(insights, "llm_status") = "success" <=> llm_exc = NoExc
            /\ llm_exc = NoExc =>
                /\ net_log[Len(net_log)] = "ok"
                /\ "error_message" \notin DictKeys(insights)
            /\ llm_exc # NoExc =>
                /\ DictGet(insights, "llm_status") = "fallback_used"
                /\ DictGet(insights, "error_message") = llm_exc.message
                /\ llm_exc.message # ""
            /\ net_log[Len(net_log)] # "ok" =>
                DictGet(insights, "llm_status") = "fallback_used"
            /\ net_log[Len(net_log)] = "timeout" =>
                DictGet(insights, "error_message")
                    = "Gemini API timeout after multiple attempts"
            /\ (/\ net_log[Len(net_log)] = "ok"
                /\ gemini_response \in {Envelope(<<Junk>>), [candidates |-> <<>>]}) =>
                DictGet(insights, "llm_status") = "fallback_used"

C9_Witness ==
    /\ llm_pc = "done"
    /\ WellFormedInput
    /\ net_log = <<"timeout", "ok">>
    /\ llm_exc.source = "parse"
    /\ DictGet(insights, "llm_status") = "fallback_used"
    /\ DictGet(insights, "error_message")
         = "Invalid JSON response from Gemini: Expecting value"

\* C10: one call of _call_gemini_api makes between 1 and 3 attempts; every
\* attempt but the last one made has failed, so no attempt follows a 200
\* with a decodable body; while fewer than three attempts have failed the
\* call is still about to make another; and the call raises only after the
\* third failure.
CallEnded == WellFormedInput /\ llm_pc \in {"parse", "fallback", "done", "raised"}
C10_AttemptBounds ==
    /\ Len(net_log) <= 3
    /\ \A i \in 1..(Len(net_log) - 1) : net_log[i] # "ok"
    /\ llm_pc = "call" =>
        /\ Len(net_log) < 3
        /\ \A i \in 1..Len(net_log) : net_log[i] # "ok"
    /\ CallEnded =>
        /\ Len(net_log) >= 1
        /\ net_log[Len(net_log)] # "ok" => Len(net_log) = 3
        /\ llm_exc.source = "call" <=> net_log[Len(net_log)] # "ok"

C10_Witness ==
    /\ llm_pc = "fallback"
    /\ llm_exc.source = "call"
    /\ net_log = <<"non200", "bad_body", "non200">>
    /\ llm_exc.message = "Gemini API failed: Gemini API failed with status 500"

\* C11: every result returned by generate_insights, on the success path as
\* on the fallback path, contains summary, condition_explanation,
\* confidence_interpretation, insights, recommendations with the four
\* subcategories immediate, monitoring, lifestyle and medical, risk_level,
\* next_steps, disclaimer, llm_status and processing_time_ms.
ResultFields ==
    {"summary", "condition_explanation", "confidence_interpretation",
     "insights", "recommendations", "risk_level", "next_steps", "disclaimer",
     "llm_status", "processing_time_ms"}
\* The keys of the 'recommendations' of a result, which is a JSON dict on
\* the success path and a plain dict on the fallback path.
RecommendationKeys(result) ==
    IF DictGet(result, "llm_status") = "success"
    THEN DictKeys(DictGet(result, "recommendations").v)
    ELSE DictKeys(DictGet(result, "recommendations"))
C11_AllFieldsPopulated ==
    llm_pc = "done" =>
        /\ ResultFields \subseteq DictKeys(insights)
        /\ {"immediate", "monitoring", "lifestyle", "medical"}
               \subseteq RecommendationKeys(insights)

\* The text of the answer held in gemini_response, <<>> if it has none.
AnswerText ==
    IF gemini_response = <<>> THEN <<>>
    ELSE IF gemini_response.candidates = <<>> THEN <<>>
    ELSE IF gemini_response.candidates[1].parts = <<>> THEN <<>>
    ELSE gemini_response.candidates[1].parts[1].text
\* The answer is parsable structured text: one JSON object, possibly fenced
\* and surrounded by white space, and nothing else.
AnswerIsObject ==
    /\ Cardinality({i \in 1..Len(AnswerText) : AnswerText[i].sym = "doc"}) = 1
    /\ \A i \in 1..Len(AnswerText) :
          /\ AnswerText[i].sym # "junk"
          /\ AnswerText[i].sym = "doc" => AnswerText[i].doc.t = "dict"
AnswerObject ==
    AnswerText[CHOOSE i \in 1..Len(AnswerText) : AnswerText[i].sym = "doc"].doc.v
MissingTopLevel ==
    {"summary", "condition_explanation", "insights", "recommendations"}
        \ DictKeys(AnswerObject)

\* C12: when the service answers 200 with parsable structured text in which
\* any of summary, condition_explanation, insights, recommendations is
\* missing, _parse_gemini_response does not fail: each missing field is
\* filled with a placeholder string and generate_insights returns the
\* result with llm_status 'success'.
C12_MissingFieldsFilled ==
    (/\ llm_pc = "done"
     /\ net_log # <<>>
     /\ net_log[Len(net_log)] = "ok"
     /\ AnswerIsObject
     /\ MissingTopLevel # {}) =>
        /\ DictGet(insights, "llm_status") = "success"
        /\ \A f \in MissingTopLevel : DictGet(insights, f).t = "str"

\* The fallback generator has produced the returned result.
FallbackReturned ==
    llm_pc = "done" /\ DictGet(insights, "llm_status") = "fallback_used"
InputLabel == DictGet(prediction_result, "prediction")
InputProbability == DictGet(prediction_result, "probability")
\* The labels whose urgency is high in the disease table.
HighUrgency == {"Bronchiectasis", "COPD", "Pneumonia"}

\* C13: for every label and probability _generate_fallback_insights sets
\* risk_level by the rule, in this order: Healthy gives LOW; otherwise
\* probability > 0.7 with urgency high gives HIGH; otherwise probability >
\* 0.5 gives MODERATE; otherwise LOW.
C13_RiskRule ==
    FallbackReturned =>
        DictGet(insights, "risk_level") =
            IF InputLabel = "Healthy" THEN "LOW"
            ELSE IF InputProbability > 700 /\ InputLabel \in HighUrgency THEN "HIGH"
            ELSE IF InputProbability > 500 THEN "MODERATE"
            ELSE "LOW"

C13_Witness ==
    /\ FallbackReturned
    /\ InputLabel = "Asthma"
    /\ InputProbability = 710
    /\ DictGet(insights, "risk_level") = "MODERATE"

\* C14: at the boundaries the fallback generator gives LOW for Healthy with
\* any probability and, for Pneumonia (urgency high), HIGH at 0.71, MODERATE
\* at 0.70, MODERATE at 0.50 and LOW at 0.49.
C14_RiskBoundaries ==
    FallbackReturned =>
        /\ InputLabel = "Healthy" => DictGet(insights, "risk_level") = "LOW"
        /\ InputLabel = "Pneumonia" =>
            /\ InputProbability = 710 => DictGet(insights, "risk_level") = "HIGH"
            /\ InputProbability = 700 => DictGet(insights, "risk_level") = "MODERATE"
            /\ InputProbability = 500 => DictGet(insights, "risk_level") = "MODERATE"
            /\ InputProbability = 490 => DictGet(insights, "risk_level") = "LOW"

\* C14, amended: as C14, but Pneumonia with probability 0.50 is LOW, since
\* 0.50 is not greater than 0.5; MODERATE starts above it (0.505).
C14_RiskBoundariesAmended ==
    FallbackReturned =>
        /\ InputLabel = "Healthy" => DictGet(insights, "risk_level") = "LOW"
        /\ InputLabel = "Pneumonia" =>
            /\ InputProbability = 710 => DictGet(insights, "risk_level") = "HIGH"
            /\ InputProbability = 700 => DictGet(insights, "risk_level") = "MODERATE"
            /\ InputProbability = 505 => DictGet(insights, "risk_level") = "MODERATE"
            /\ InputProbability = 500 => DictGet(insights, "risk_level") = "LOW"
            /\ InputProbability = 490 => DictGet(insights, "risk_level") = "LOW"

C14_Witness ==
    /\ FallbackReturned
    /\ InputLabel = "Pneumonia"
    /\ InputProbability = 500
    /\ DictGet(insights, "risk_level") = "LOW"

\* C15: when GEMINI_API_KEY is unset, requesting insights for a prediction
\* is not an error and yields the fallback insight result, with status
\* fallback_used.
C15_NoCredentialsFallback ==
    (api_key = "" /\ llm_pc = "returned") =>
        /\ medical = "insights"
        /\ DictGet(insights, "llm_status") = "fallback_used"

\* C16: when the model artifact does not exist, predict_respiratory_condition
\* fails with a file-not-found error before the model is loaded or any audio
\* is processed, returns no result, and the /api/predict request ends with
\* the 503 'Model not available' response.
C16_ModelNotFound ==
    (model_file.kind = "missing" /\ pred_pc # "validate") =>
        /\ pred_pc = "error"
        /\ pred_err.type = "FileNotFoundError"
        /\ model = <<>>
        /\ pipe_pc = "idle"
        /\ pipe_trace = <<>>
        /\ pred_result = <<>>
        /\ http_response \in {NoResponse,
                              [status |-> 503, error |-> "Model not available"]}

C16_Witness ==
    /\ model_file.kind = "missing"
    /\ disk[wav_file_path].kind = "clip"
    /\ pred_pc = "error"
    /\ http_response.status = 503

\* A message, a sequence of text parts, has the part x.
Mentions(message, x) == \E i \in 1..Len(message) : message[i] = x

\* C17: if extraction of one of the 8 feature families fails for a clip,
\* FeatureExtractor.transform aborts with an error that identifies the clip
\* and the failing family, and no feature record is returned for that call.
C17_ExtractionFailureReported ==
    pipe_fail # NoFailure =>
        /\ pipe_pc = "error"
        /\ "extract_features" \notin {pipe_trace[i] : i \in 1..Len(pipe_trace)}
        /\ Mentions(pipe_err.message, pipe_val[pipe_fail[1]].key)
        /\ Mentions(pipe_err.message, pipe_fail[2])

\* What makes an upload fail the checks on its form: no 'audio' part, an
\* empty file name, an extension other than .wav, .mp3, .flac, .m4a in any
\* case, or a MIME type that is no audio type.
NoFileOrName(f) == ~f.has_audio \/ (f.filename.stem = "" /\ f.filename.suffix = "")
BadExtension(f) ==
    f.filename.suffix \notin {".wav", ".WAV", ".mp3", ".flac", ".m4a"}
BadForm(f) == NoFileOrName(f) \/ BadExtension(f) \/ f.content_type = "text/plain"
TooLarge(f) == f.size > 50 * 1024 * 1024
\* The files of test_validate_audio_file_invalid, besides the uploads.
InvalidSamples ==
    Uploads \cup {Upload(TRUE, "test", ".pdf", "", 0),
                  Upload(TRUE, "noextension", "", "", 0)}

\* C18: a /api/predict request that fails input validation (no 'audio'
\* part, empty file name, disallowed extension or MIME type, file larger
\* than MAX_FILE_SIZE) is answered with 400 and predict_respiratory_condition
\* is never invoked for it (a request whose upload is too large gets the 400
\* from the size check once the file is saved; if saving fails before it, the
\* request ends with 500); validate_audio_file returns False for a missing
\* file, an empty file name and every file name with another extension.
C18_InvalidInputRejected ==
    /\ \A t \in Threads :
          (req[t].kind = "predict" /\ (BadForm(req[t].file) \/ TooLarge(req[t].file))) =>
              /\ ~req[t].called
              /\ req[t].pc \in {"finally", "done"} =>
                  /\ req[t].status \in {400, 500}
                  /\ BadForm(req[t].file) => req[t].status = 400
                  /\ req[t].status = 400 => req[t].error = "Invalid request"
                  /\ req[t].status = 500 => req[t].temp_file_path # NoPath
    /\ \A f \in InvalidSamples :
          (NoFileOrName(f) \/ BadExtension(f)) => ~validate_audio_file(f)

C18_Witness ==
    /\ req[1].pc = "done" /\ TooLarge(req[1].file) /\ req[1].status = 400
    /\ req[1].temp_file_path # NoPath /\ ~req[1].called
    /\ req[2].pc = "done" /\ BadExtension(req[2].file) /\ req[2].status = 400
    /\ req[2].temp_file_path = NoPath

\* The clip given to and the clip returned by the trimmer for the i-th file.
ClipIn(i) == trim_X[i].val.data
ClipOut(i) == DictGet(trimmed, trim_X[i].key).data
ClipTarget(i) == FloorTR(target_duration, trim_X[i].val.sample_rate)

\* C19: when the input has fewer than N = floor(T*R) samples,
\* AudioTrimmer.transform returns the input samples unchanged in positions
\* 0..len-1 followed by zeros up to length N; a clip of 0 samples yields N
\* zeros.
C19_ShortClipZeroPadded ==
    trim_pc = "done" =>
        \A i \in 1..Len(trim_X) :
            Len(ClipIn(i)) < ClipTarget(i) =>
                /\ Len(ClipOut(i)) = ClipTarget(i)
                /\ \A k \in 1..Len(ClipIn(i)) : ClipOut(i)[k] = ClipIn(i)[k]
                /\ \A k \in (Len(ClipIn(i)) + 1)..ClipTarget(i) : ClipOut(i)[k] = 0

C19_Witness ==
    /\ trim_pc = "done"
    /\ ClipIn(1) = <<1, 1>>
    /\ ClipOut(1) = <<1, 1, 0, 0>>

\* C20: when the input has at least N = floor(T*R) samples,
\* AudioTrimmer.transform returns exactly the first N input samples in their
\* order and drops the rest (a clip of N+5 samples loses its last 5).
C20_LongClipTruncated ==
    trim_pc = "done" =>
        \A i \in 1..Len(trim_X) :
            Len(ClipIn(i)) >= ClipTarget(i) =>
                /\ Len(ClipOut(i)) = ClipTarget(i)
                /\ \A k \in 1..ClipTarget(i) : ClipOut(i)[k] = ClipIn(i)[k]

C20_Witness ==
    /\ trim_pc = "done"
    /\ ClipTarget(1) = 1
    /\ ClipIn(1) = <<1, 0, 0, 0, 0, 0>>
    /\ ClipOut(1) = <<1>>

\* C21: normalizing a clip whose sample rate is 0 is rejected with an
\* invalid-audio error; AudioTrimmer.transform never returns a normalized
\* clip for it.
C21_ZeroRateRejected ==
    \A i \in 1..Len(trim_X) :
        trim_X[i].val.sample_rate = 0 => trim_pc # "done"

\* C22: for a batch of n input paths the pipeline output is a table with
\* exactly n rows, one per input clip, with the same column order in every
\* row, also when two of the paths have the same base filename in different
\* directories.
DistinctPaths(X) == \A i, j \in 1..Len(X) : X[i] = X[j] => i = j

C22_OneRowPerClip ==
    (pipe_pc = "done" /\ DistinctPaths(pipe_X)) =>
        /\ Len(pipe_val.rows) = Len(pipe_X)
        /\ \A i \in 1..Len(pipe_val.rows) :
              RowKeys(pipe_val.rows[i]) = pipe_val.columns

\* C23: validate_model_compatibility reports a model as compatible exactly
\* when it exposes predict, predict_proba and a classes accessor and its
\* number of classes equals 8, the size of the label enumeration.
C23_CompatibleIffEightClasses ==
    compat_pc = "returned" =>
        (model_info.is_compatible <=>
            /\ compat_model.has_predict
            /\ compat_model.has_predict_proba
            /\ compat_model.has_classes
            /\ compat_model.n_classes = 8)

\* The last two calls both returned fallback insights.
IsFallback(result) ==
    result # <<>> /\ DictGet(result, "llm_status") = "fallback_used"
TwoFallbacks == llm_pc = "done" /\ IsFallback(insights) /\ IsFallback(previous)
SameExcept(a, b, keys) ==
    /\ DictKeys(a) = DictKeys(b)
    /\ \A k \in DictKeys(a) \ keys : DictGet(a, k) = DictGet(b, k)

StageOrder ==
    <<"load_audio", "trim_audio", "extract_features", "calculate_statistics">>
IsPrefix(s, t) == Len(s) <= Len(t) /\ s = SubSeq(t, 1, Len(s))

\* C25: create_respiratory_pipeline builds exactly the four steps
\* load_audio, trim_audio, extract_features, calculate_statistics in this
\* order; the stages run in this order; in predict_respiratory_condition the
\* classifier is invoked only after all four have completed, and the result
\* is assembled only after the classifier call.
C25_StageOrder ==
    /\ pipeline # <<>> => pipeline.steps = StageOrder
    /\ IsPrefix(pipe_trace, StageOrder)
    /\ model_out # <<>> => (pipe_trace = StageOrder /\ pipe_pc = "done")
    /\ pred_result # <<>> => model_out # <<>>

C25_Witness ==
    /\ pred_pc = "done"
    /\ pipe_trace = StageOrder
    /\ model_out # <<>>
    /\ pred_result # <<>>

\* generate_insights has returned the parsed answer.
SuccessReturned ==
    llm_pc = "done" /\ DictGet(insights, "llm_status") = "success"
\* The 'recommendations' of the answer and of the returned result.
AnswerRecommendations == DictGet(AnswerObject, "recommendations")
ReturnedRecommendations == DictGet(insights, "recommendations")
FourSubcategories == {"immediate", "monitoring", "lifestyle", "medical"}

\* C26: when the parsed answer contains a recommendations structure that
\* lacks any of immediate, monitoring, lifestyle, medical,
\* _parse_gemini_response adds a one-item placeholder list for each missing
\* subcategory and leaves those present unchanged, so that the returned
\* recommendations always has all four.
C26_SubcategoriesFilled ==
    SuccessReturned =>
        /\ ReturnedRecommendations.t = "dict"
        /\ AnswerRecommendations.t = "dict"
        /\ DictKeys(ReturnedRecommendations.v)
               = DictKeys(AnswerRecommendations.v) \cup FourSubcategories
        /\ \A k \in DictKeys(AnswerRecommendations.v) :
              DictGet(ReturnedRecommendations.v, k) = DictGet(AnswerRecommendations.v, k)
        /\ \A k \in FourSubcategories \ DictKeys(AnswerRecommendations.v) :
              DictGet(ReturnedRecommendations.v, k) =
                  [t |-> "list",
                   items |-> <<[t |-> "str",
                                text |-> "Consult with medical professionals for "
                                             \o k \o " guidance"]>>]

C26_Witness ==
    /\ SuccessReturned
    /\ DictKeys(AnswerRecommendations.v) = {"medical", "monitoring"}
    /\ DictGet(ReturnedRecommendations.v, "monitoring").items
           = <<[t |-> "str", text |-> "a"], [t |-> "str", text |-> "b"]>>
    /\ Len(DictGet(ReturnedRecommendations.v, "lifestyle").items) = 1

\* The 8 labels of the enumeration.
EnumerationLabels ==
    {"Asthma", "Bronchiectasis", "Bronchiolitis", "COPD", "Healthy", "LRTI",
     "Pneumonia", "URTI"}
UnknownLabelInput == WellFormedInput /\ InputLabel \notin EnumerationLabels

\* C27: for a predicted label that is not one of the 8 enumeration labels,
\* _generate_fallback_insights does not raise: it uses the default-unknown
\* metadata entry, returns a complete result marked fallback_used, and never
\* assigns risk_level HIGH.
C27_UnknownLabelFallback ==
    UnknownLabelInput =>
        /\ llm_pc # "raised"
        /\ llm_exc.source # "fallback"
        /\ FallbackReturned =>
              /\ DictGet(insights, "condition_explanation")
                     = <<InputLabel, " is ", "respiratory condition detected by the system">>
              /\ DictGet(insights, "risk_level") \in {"LOW", "MODERATE"}
              /\ ResultFields \subseteq DictKeys(insights)
              /\ RecommendationKeys(insights) = FourSubcategories

C27_Witness ==
    /\ FallbackReturned
    /\ InputLabel = "Martian"
    /\ InputProbability = 710
    /\ DictGet(insights, "risk_level") = "MODERATE"

\* The payload of a response text: what is left without fence markers and
\* language tags.  The wrappings of a payload: bare, between a leading fence
\* with or without language tag and a trailing fence, and with only one of
\* the fences, each with or without white space around the parts.
Payload(text) == SelectSeq(text, LAMBDA s : s.sym \notin {"fence", "json"})
Wrap(lead, p, trail, ws) == ws \o lead \o ws \o p \o ws \o trail \o ws
Wrappings(p) ==
    { Wrap(lead, p, trail, ws) :
        lead  \in {<<>>, <<Fence, JsonTag>>, <<Fence>>},
        trail \in {<<>>, <<Fence>>},
        ws    \in {<<>>, <<Space>>} }
ParseOutcome(text) == ParseGeminiResponse(Envelope(text))
SameParse(a, b) == a.ok = b.ok /\ (a.ok => a.val = b.val)
\* _parse_gemini_response has been applied to an answer with a payload.
ParsedAnswer ==
    /\ \/ llm_pc = "done" /\ DictGet(insights, "llm_status") = "success"
       \/ llm_pc = "fallback" /\ llm_exc.source = "parse"
    /\ Payload(AnswerText) # <<>>

\* C28: for every response text _parse_gemini_response parses the same
\* structured record whether the text is bare, wrapped in a leading fence
\* with language tag and a trailing fence, wrapped in a leading fence without
\* language tag and a trailing fence, or has only one of the two fences; the
\* stripping removes only fence markers and never characters of the payload.
C28_FenceInvariance ==
    ParsedAnswer =>
        LET p == Payload(AnswerText)
        IN  /\ \A w \in Wrappings(p) :
                  /\ StripFences(w) = Strip(p)
                  /\ SameParse(ParseOutcome(w), ParseOutcome(p))
            /\ (AnswerText \in Wrappings(p) /\ SuccessReturned) =>
                  /\ ParseOutcome(p).ok
                  /\ \A k \in DictKeys(ParseOutcome(p).val) \ {"llm_status"} :
                        DictGet(insights, k) = DictGet(ParseOutcome(p).val, k)

C28_Witness ==
    /\ SuccessReturned
    /\ AnswerText = <<Space, Fence, JsonTag, Space, Doc(FullDoc), Space, Fence, Space>>
    /\ DictGet(insights, "summary") = DictGet(FullDoc.v, "summary")

\* C29: generate_medical_insights never raises: for every input, a
\* prediction result that lacks 'prediction', 'probability' or
\* 'all_probabilities' included (for which the fallback generator itself
\* may fail), it returns either an insights record or None.
C29_NeverRaises ==
    /\ medical \in {"pending", "insights", "None"}
    /\ llm_pc = "returned" =>
          /\ medical \in {"insights", "None"}
          /\ medical = "insights" => insights # <<>>
          /\ llm_exc.source = "fallback" => medical = "None"

C29_Witness ==
    /\ llm_pc = "returned"
    /\ "prediction" \notin DictKeys(prediction_result)
    /\ llm_exc.source = "fallback"
    /\ medical = "None"

\* A request that has saved its upload and has not yet run its finally
\* clause.
HoldsTempFile(t) ==
    req[t].temp_file_path # NoPath /\ req[t].pc \in {"size", "predict", "finally"}

\* C30: under any interleaving of concurrent /api/predict requests, each
\* request reads and deletes only the temporary file it created itself: temp
\* file names are unique per request, so the cleanup of one request never
\* removes or replaces the file of another request that is still being
\* processed, even when both uploads have the same original filename.
C30_OwnTempFileOnly ==
    /\ \A t, u \in Threads :
          (t # u /\ req[t].temp_file_path # NoPath) =>
              req[t].temp_file_path # req[u].temp_file_path
    /\ \A t \in Threads :
          HoldsTempFile(t) => req[t].temp_file_path[1] \in temp_dir
    /\ \A name \in temp_dir :
          \E t \in Threads : HoldsTempFile(t) /\ req[t].temp_file_path = <<name>>

C30_Witness ==
    /\ req[1].file.filename = req[2].file.filename
    /\ req[1].pc = "done" /\ req[1].temp_file_path # NoPath
    /\ req[2].pc = "predict"
    /\ req[2].temp_file_path[1] \in temp_dir

====
